---------------------------- MODULE Spec2Model ----------------------------
(***************************************************************************)
(* Model of the Intel HEX codec of smart_card_loader (src/intelhex.py on   *)
(* top of src/format.py and src/segment.py), of Format.merge, of the       *)
(* construction of MotorolaSRecord and SmartCard objects, and of the       *)
(* command script parser SmartCard.parse (src/smart_card.py).              *)
(*                                                                         *)
(* Text is modelled symbol by symbol.  A Python str is a sequence of       *)
(* symbols: 0..15 are the hexadecimal digits '0'..'F', COLON is ':',       *)
(* NonHex is a character that is no hexadecimal digit (such as 'G'), NL is *)
(* the line termination, SPACE is ' ' and SLASH is '/'.  Slicing,          *)
(* int(s, 16) and the f-string formats are operators that compute what     *)
(* Python computes, so that a composed line really is parsed back field by *)
(* field.                                                                  *)
(*                                                                         *)
(* The scratch fields record_length, address, data and checksum of the     *)
(* object are written by every _parse before they are read, so they are    *)
(* LET-bound inside the handlers; end_of_file_line_number is never         *)
(* accessed.                                                               *)
(***************************************************************************)
EXTENDS Integers, Sequences, FiniteSets, TLC

VARIABLES
    segments,              \* Format.segments: list of Segment
    lines,                 \* Format.lines: list of str
    parsed,                \* Format.parsed
    composed,              \* Format.composed
    segment_address,       \* IntelHex.segment_address (int)
    segment_data,          \* IntelHex.segment_data (str)
    lower_address,         \* IntelHex.lower_address (int)
    data_collected,        \* IntelHex.data_collected (int)
    start_address,         \* IntelHex.start_address ('' | str | int)
    end_of_file_reached,   \* IntelHex.end_of_file_reached
    pc,                    \* position of the caller / of parse's loop
    record,                \* loop variable `record` of parse
    raised,                \* exception that ended the last call, or "none"
    streaming,             \* TRUE: the document is revealed line by line
    hex_file,              \* lines of the document not yet iterated over
    file,                  \* content of the file on disk
    ret,                   \* list returned by the last parse (caller's _segments)
    origin,                \* who wrote `file`, and from which Segment list
    calls,                 \* parse/compose calls made so far
    fresh,                 \* no call was made on this instance yet
    file_paths             \* merge: the input files its loop has not parsed yet

vars == <<segments, lines, parsed, composed, segment_address, segment_data,
          lower_address, data_collected, start_address, end_of_file_reached,
          pc, record, raised, streaming, hex_file, file, ret, origin, calls,
          fresh, file_paths>>

self_vars == <<segments, lines, parsed, composed, segment_address, segment_data,
               lower_address, data_collected, start_address, end_of_file_reached>>

-----------------------------------------------------------------------------
(* Symbols *)

COLON == 16

NonHex == COLON + 1

NL == COLON + 2

IsHexDigit(c) == c \in 0..15

(* RecordStructure *)
START_CODE == 0

RECORD_LENGTH == 1

ADDRESS == 3

RECORD_TYPE == 7

DATA == 9

CHECKSUM == 0 - 2

(* MAX_DATA_LENGTH: 16 bytes, 2 characters each *)
MAX_DATA_LENGTH == 16 * 2

-----------------------------------------------------------------------------
(* Python str primitives *)

Min(a, b) == IF a < b THEN a ELSE b

Max(a, b) == IF a < b THEN b ELSE a

\* an index of a slice, clipped the way Python clips it
ClipIndex(i, n) == IF i < 0 THEN Max(i + n, 0) ELSE Min(i, n)

\* s[lo:hi]
Slice(s, lo, hi) ==
    LET a == ClipIndex(lo, Len(s))
        b == ClipIndex(hi, Len(s))
    IN  IF a >= b THEN <<>> ELSE SubSeq(s, a + 1, b)

\* s[lo:]
SliceFrom(s, lo) == Slice(s, lo, Len(s))

\* int(s, 16) raises ValueError unless s is a non-empty string of hex digits
IsHexStr(s) == Len(s) > 0 /\ \A i \in 1..Len(s) : IsHexDigit(s[i])

RECURSIVE HexToInt(_)
HexToInt(s) ==
    IF s = <<>> THEN 0
    ELSE 16 * HexToInt(SubSeq(s, 1, Len(s) - 1)) + s[Len(s)]

RECURSIVE HexDigits(_)
HexDigits(n) == IF n < 16 THEN <<n>> ELSE HexDigits(n \div 16) \o <<n % 16>>

RECURSIVE ZeroPad(_, _)
ZeroPad(s, width) == IF Len(s) >= width THEN s ELSE ZeroPad(<<0>> \o s, width)

\* f'{n:0<width>X}': at least `width` digits, more when n needs more
FormatHex(n, width) == ZeroPad(HexDigits(n), width)

RECURSIVE Concat(_)
Concat(ss) == IF ss = <<>> THEN <<>> ELSE Head(ss) \o Concat(Tail(ss))

\* text.split(line_termination): the pieces between the terminators
Terminators(text) == {i \in 1..Len(text) : text[i] = NL}

\* position of the k-th terminator; 0 before the first, Len + 1 after the last
TerminatorAt(text, k) ==
    IF k = 0 THEN 0
    ELSE IF k > Cardinality(Terminators(text)) THEN Len(text) + 1
    ELSE CHOOSE i \in Terminators(text) :
             Cardinality({j \in Terminators(text) : j < i}) = k - 1

Split(text) ==
    [k \in 1..(Cardinality(Terminators(text)) + 1) |->
        SubSeq(text, TerminatorAt(text, k - 1) + 1, TerminatorAt(text, k) - 1)]

-----------------------------------------------------------------------------
(* Segment *)

Segment(address, data) == [address |-> address, data |-> data]

(* RECORD_IDENTIFIER: the record types with a handler *)
RECORD_IDENTIFIER == {<<0, 0>>, <<0, 1>>, <<0, 2>>, <<0, 3>>, <<0, 4>>, <<0, 5>>}

DATA_RECORD == <<0, 0>>

END_OF_FILE_RECORD == <<0, 1>>

EXTENDED_SEGMENT_ADDRESS_RECORD == <<0, 2>>

START_SEGMENT_ADDRESS_RECORD == <<0, 3>>

EXTENDED_LINEAR_ADDRESS_RECORD == <<0, 4>>

START_LINEAR_ADDRESS_RECORD == <<0, 5>>

-----------------------------------------------------------------------------
(* Checksums *)

\* sum of int(s[i:i+2], 16) for i in range(first, len(s), 2)
RECURSIVE PairSum(_, _)
PairSum(s, i) ==
    IF i >= Len(s) THEN 0
    ELSE HexToInt(Slice(s, i, i + 2)) + PairSum(s, i + 2)

\* every s[i:i+2] of that range converts without ValueError
PairsAreHex(s, first) ==
    \A i \in first..(Len(s) - 1) : (i - first) % 2 = 0 => IsHexStr(Slice(s, i, i + 2))

\* variant: only the low digit of the sum is tested
VerifyLowDigit(rec) == PairSum(rec, 1) % 16 = 0

\* _verify_checksum(record), for a record whose pairs are hex
_verify_checksum(rec) == PairSum(rec, 1) % 256 = 0

\* variant: the one's complement of the byte sum
CalculateOnesComplement(body) ==
    LET sum == PairSum(body, 0) % 256
    IN  FormatHex(255 - sum, 2)

\* _calculate_checksum(record): two's complement of the byte sum
_calculate_checksum(body) ==
    LET sum == PairSum(body, 0) % 256
    IN  FormatHex(((255 - sum) + 1) % 256, 2)


-----------------------------------------------------------------------------
(* Bounds of the model *)

\* lines one instance reads from a streamed document
MaxLines == 3

\* parse/compose calls of one run
MaxCalls == 3

\* Segments in a list handed to compose
MaxSegments == 2

\* input files of one merge call
MaxInputs == 2

\* Segments in a list handed to a format conversion
MaxConverted == 3

-----------------------------------------------------------------------------
(* Documents the environment supplies *)

\* the byte stored at an address of the image
Pattern(k) == ((k % 256) * 37 + 11) % 256

RECURSIVE Payload(_, _)
Payload(a, n) == IF n = 0 THEN <<>> ELSE FormatHex(Pattern(a), 2) \o Payload(a + 1, n - 1)

\* the checksum that makes (sum of the bytes + checksum) mod 256 = 0
ValidChecksum(body) == FormatHex((256 - (PairSum(body, 0) % 256)) % 256, 2)

MakeRecord(n, a, type, data) ==
    LET body == FormatHex(n, 2) \o FormatHex(a, 4) \o type \o data
    IN  <<COLON>> \o body \o ValidChecksum(body)

DataLine(a, n) == MakeRecord(n, a, DATA_RECORD, Payload(a, n))

EofLine == MakeRecord(0, 0, END_OF_FILE_RECORD, <<>>)

EsaLine(v) == MakeRecord(2, 0, EXTENDED_SEGMENT_ADDRESS_RECORD, FormatHex(v, 4))

ElaLine(v) == MakeRecord(2, 0, EXTENDED_LINEAR_ADDRESS_RECORD, FormatHex(v, 4))

SsaLine(cs, ip) ==
    MakeRecord(4, 0, START_SEGMENT_ADDRESS_RECORD, FormatHex(cs, 4) \o FormatHex(ip, 4))

SlaLine(v) == MakeRecord(4, 0, START_LINEAR_ADDRESS_RECORD, FormatHex(v, 8))

\* the record with one digit of its checksum field replaced
FlipChecksum(rec, pos, digit) == [rec EXCEPT ![Len(rec) - 2 + pos] = digit]

DataAddrs == {256, 257, 258}

DataLens == {0, 1, 2}

DataLines == {DataLine(a, n) : a \in DataAddrs, n \in DataLens}

StartLines == {SsaLine(4096, 16), SsaLine(4096, 32), SlaLine(4096), SlaLine(8192)}

RegisterLines == {EsaLine(4096), ElaLine(1024)}

\* a record type outside the table, a line that ends before its record type, and
\* a data record with a symbol that is no hexadecimal digit
StructuralErrorLines ==
    { MakeRecord(0, 0, <<0, 6>>, <<>>),
      <<COLON, 0, 0>>,
      [DataLine(256, 1) EXCEPT ![DATA + 1] = NonHex] }

\* an empty line and a record type outside the table
SwallowedLines == {<<>>, MakeRecord(0, 0, <<0, 6>>, <<>>)}

\* no start code, a flipped checksum digit, an address register of 1 byte
RejectedLines ==
    { Tail(DataLine(256, 1)),
      FlipChecksum(DataLine(256, 2), 1, 0),
      MakeRecord(1, 0, EXTENDED_LINEAR_ADDRESS_RECORD, <<1, 2>>) }

StreamLines ==
    DataLines \cup StartLines \cup RegisterLines \cup SwallowedLines
        \cup RejectedLines \cup {EofLine}

\* the lines of a document, joined by the line termination
RECURSIVE JoinLines(_)
JoinLines(ls) ==
    IF ls = <<>> THEN <<>>
    ELSE IF Len(ls) = 1 THEN ls[1]
    ELSE ls[1] \o <<NL>> \o JoinLines(Tail(ls))

\* one valid record of every type
ValidRecords ==
    {DataLine(256, 2), EofLine, EsaLine(4096), SsaLine(4096, 16), ElaLine(1024),
     SlaLine(4096)}

\* every record obtained from a valid one by replacing one checksum digit
FlippedRecords ==
    {FlipChecksum(rec, pos, digit) :
        rec \in ValidRecords, pos \in {1, 2}, digit \in 0..15} \ ValidRecords

\* the document of the end-to-end scenario, with the checksums the scenario prints
ScenarioDocument ==
    JoinLines(<< <<COLON, 0,2, 0,0,0,0, 0,4, 0,4,0,0, 3,14>>,
                 <<COLON, 0,4, 0,0,0,0, 0,0, 0,0,1,1,2,2,3,3, 12,10>>,
                 <<COLON, 0,0, 0,0,0,0, 0,1, 15,15>> >>)

\* the same records with the checksums of their bytes
ScenarioRecords ==
    << MakeRecord(2, 0, EXTENDED_LINEAR_ADDRESS_RECORD, <<0,4,0,0>>),
       MakeRecord(4, 0, DATA_RECORD, <<0,0,1,1,2,2,3,3>>),
       EofLine >>

ScenarioSegment == Segment(<<0,4,0,0,0,0,0,0>>, <<0,0,1,1,2,2,3,3>>)

\* documents that visit every handler
MixedDocuments ==
    { JoinLines(<<EsaLine(4096), DataLine(256, 2), SsaLine(4096, 16), <<>>,
                  MakeRecord(0, 0, <<0, 6>>, <<>>), DataLine(258, 1), EofLine>>),
      JoinLines(<<ElaLine(1024), DataLine(256, 1), SlaLine(4096), DataLine(257, 2)>>),
      JoinLines(<<DataLine(256, 2), Tail(DataLine(258, 1)), EofLine>>),
      JoinLines(<<ElaLine(1024), DataLine(256, 2), ElaLine(1024), DataLine(257, 1),
                  EofLine>>),
      JoinLines(<<<<COLON, 0, 0>>, [DataLine(256, 1) EXCEPT ![DATA + 1] = NonHex],
                  DataLine(257, 1), EofLine>>),
      <<>> }

Documents == {ScenarioDocument, JoinLines(ScenarioRecords)} \cup MixedDocuments

\* what precedes the record under test in a document
Prefixes ==
    { <<>>,
      <<DataLine(256, 1)>>,
      <<ElaLine(1024), DataLine(257, 2), <<>>, MakeRecord(0, 0, <<0, 6>>, <<>>)>> }

\* records a handler raises on after a data record at 0x0102 and a start address:
\* length mismatch, wrong length of an address or start-address record, a hole
\* below and above the run, a record on the run's addresses, another start address
RaisingRecords ==
    { MakeRecord(2, 257, DATA_RECORD, <<10, 10>>),
      MakeRecord(1, 0, EXTENDED_SEGMENT_ADDRESS_RECORD, <<1, 2>>),
      MakeRecord(1, 0, EXTENDED_LINEAR_ADDRESS_RECORD, <<1, 2>>),
      MakeRecord(2, 0, START_SEGMENT_ADDRESS_RECORD, <<1, 2, 3, 4>>),
      MakeRecord(2, 0, START_LINEAR_ADDRESS_RECORD, <<1, 2, 3, 4>>),
      DataLine(256, 1),
      DataLine(258, 1),
      MakeRecord(2, 260, DATA_RECORD, Payload(256, 2)),
      SsaLine(4096, 32),
      SlaLine(8192),
      FlipChecksum(DataLine(257, 1), 1, 0) }

\* documents that hold one record, valid or with a flipped checksum digit, and
\* documents with a record that a handler raises on
ChecksumDocuments ==
    {JoinLines(<<DataLine(258, 1), SlaLine(4096), rec, EofLine>>) : rec \in RaisingRecords}
    \cup
    {JoinLines(pre \o <<rec, EofLine>>) :
        pre \in Prefixes, rec \in ValidRecords \cup FlippedRecords}
    \cup {JoinLines(<<EofLine, rec>>) : rec \in FlippedRecords}
    \cup {JoinLines(<<DataLine(256, 1), EofLine, rec>>) :
              rec \in {DataLine(257, 1), ElaLine(1024), Tail(DataLine(258, 1))}}
    \cup {Tail(EofLine)}

(* Segment lists a caller composes *)

DataSegment(address, n) == Segment(FormatHex(address, 8), Payload(address, n))

MarkerSegment(address) == Segment(FormatHex(address, 8), <<>>)

SegmentPool ==
    { DataSegment(65520, 16),         \* a full record that ends with its 64 KiB page
      DataSegment(65536, 17),         \* two records, next to the Segment before
      DataSegment(65528, 17),         \* crosses the end of its 64 KiB page
      ScenarioSegment,
      MarkerSegment(4096) }

(* Files a caller merges *)

\* the lists whose composed text is an input of merge
MergeLists == {<<ScenarioSegment>>, <<DataSegment(65520, 16)>>, <<DataSegment(65536, 17)>>}

(* Segment lists a caller converts to another format *)

ConvertedLists ==
    UNION {[1..n -> {seg \in SegmentPool : seg.data # <<>>} \cup {DataSegment(512, 2)}] :
               n \in 0..MaxConverted}

RECURSIVE ListsUpTo(_)
ListsUpTo(n) ==
    IF n = 0 THEN {<<>>}
    ELSE LET shorter == ListsUpTo(n - 1)
         IN  shorter \cup {Append(l, s) : l \in shorter, s \in SegmentPool}

SegmentLists == ListsUpTo(MaxSegments)

-----------------------------------------------------------------------------
(* IntelHex.__init__ on top of Format.__init__ *)

EmptyStr == [tag |-> "str", val |-> <<>>]

StrValue(s) == [tag |-> "str", val |-> s]

IntValue(n) == [tag |-> "int", val |-> n]

NewInstance ==
    /\ segments = <<>>
    /\ lines = <<>>
    /\ parsed = FALSE
    /\ composed = FALSE
    /\ segment_address = 0
    /\ segment_data = <<>>
    /\ lower_address = 0
    /\ data_collected = 0
    /\ start_address = EmptyStr
    /\ end_of_file_reached = FALSE

Init ==
    /\ NewInstance
    /\ pc = "idle"
    /\ record = <<>>
    /\ raised = "none"
    /\ streaming = TRUE
    /\ hex_file = <<>>
    /\ file = <<>>
    /\ ret = <<>>
    /\ origin = [by |-> "none", segments |-> <<>>]
    /\ calls = 0
    /\ fresh = TRUE
    /\ file_paths = <<>>

-----------------------------------------------------------------------------
(* IntelHex.parse: entry, loop and exit *)

\* the records the loop can take next
NextRecords ==
    IF streaming
    THEN IF Len(lines) < MaxLines THEN StreamLines ELSE {}
    ELSE IF hex_file # <<>> THEN {Head(hex_file)} ELSE {}

InLoop(rec) == pc \in {"open", "loop"} /\ rec \in NextRecords

Advance(rec) ==
    /\ record' = rec
    /\ hex_file' = IF streaming THEN hex_file ELSE Tail(hex_file)

\* variant: the loop goes on after the end-of-file record
ContinueNoBreak(rec, eof) ==
    /\ lines' = Append(lines, rec \o <<NL>>)
    /\ pc' = "loop"
    /\ raised' = "none"
    /\ Advance(rec)
    /\ UNCHANGED <<parsed, composed, streaming, file, ret, origin, calls, fresh,
                   file_paths>>

\* the iteration ends without an exception leaving parse: the line is saved and
\* the loop breaks once end of file is marked
Continue(rec, eof) ==
    /\ lines' = Append(lines, rec \o <<NL>>)
    /\ pc' = IF eof THEN "after" ELSE "loop"
    /\ raised' = "none"
    /\ Advance(rec)
    /\ UNCHANGED <<parsed, composed, streaming, file, ret, origin, calls, fresh,
                   file_paths>>

\* an exception leaves the handler and parse
Raise(rec, exception) ==
    /\ pc' = "idle"
    /\ raised' = exception
    /\ record' = rec
    /\ hex_file' = <<>>
    /\ UNCHANGED <<lines, parsed, composed, streaming, file, ret, origin, calls,
                   fresh, file_paths>>

UnchangedRun == UNCHANGED <<segment_address, segment_data, lower_address, data_collected>>

\* ValueError, KeyError and IndexError are caught in the loop and dropped
Swallowed(rec) ==
    /\ UNCHANGED <<segments, start_address, end_of_file_reached>>
    /\ UnchangedRun
    /\ Continue(rec, end_of_file_reached)

Rejected(rec, exception) ==
    /\ UNCHANGED <<segments, start_address, end_of_file_reached>>
    /\ UnchangedRun
    /\ Raise(rec, exception)

\* variant: parse reads the document whether or not the instance has parsed
ParseCallRereads(from_stream) ==
    /\ pc = "idle"
    /\ calls < MaxCalls
    /\ calls' = calls + 1
    /\ fresh' = FALSE
    /\ raised' = "none"
    /\ record' = <<>>
    /\ UNCHANGED self_vars
    /\ UNCHANGED <<file, origin, file_paths, ret>>
    /\ pc' = "open"
    /\ streaming' = from_stream
    /\ hex_file' = IF from_stream THEN <<>> ELSE Split(file)

\* parse(file_path): the "already parsed" guard, else the document is read
ParseCall(from_stream) ==
    /\ pc = "idle"
    /\ calls < MaxCalls
    /\ calls' = calls + 1
    /\ fresh' = FALSE
    /\ raised' = "none"
    /\ record' = <<>>
    /\ UNCHANGED self_vars
    /\ UNCHANGED <<file, origin, file_paths>>
    /\ IF parsed
       THEN /\ ret' = segments
            /\ UNCHANGED <<pc, streaming, hex_file>>
       ELSE /\ pc' = "open"
            /\ streaming' = from_stream
            /\ hex_file' = IF from_stream THEN <<>> ELSE Split(file)
            /\ UNCHANGED ret

\* the loop is left (break, or no line is left); the missing end-of-file error
\* is constructed but not raised
ParseReturn ==
    /\ \/ pc = "after"
       \/ pc = "loop" /\ (streaming \/ hex_file = <<>>)
    /\ parsed' = TRUE
    /\ ret' = segments
    /\ pc' = "idle"
    /\ hex_file' = <<>>
    /\ UNCHANGED <<segments, lines, composed, segment_address, segment_data,
                   lower_address, data_collected, start_address, end_of_file_reached,
                   record, raised, streaming, file, origin, calls, fresh, file_paths>>

\* `if record:` is false for an empty line
SkipEmptyLine(rec) ==
    /\ InLoop(rec)
    /\ rec = <<>>
    /\ Swallowed(rec)

StartCodeOf(rec) == Slice(rec, START_CODE, RECORD_LENGTH)

RecordTypeOf(rec) == Slice(rec, RECORD_TYPE, DATA)

HasStartCode(rec) == rec # <<>> /\ StartCodeOf(rec) = <<COLON>>

CheckStartCode(rec) ==
    /\ InLoop(rec)
    /\ rec # <<>>
    /\ StartCodeOf(rec) # <<COLON>>
    /\ Rejected(rec, "Start of a record not found")

\* RECORD_IDENTIFIER[record_type] raises KeyError
UnknownRecordType(rec) ==
    /\ InLoop(rec)
    /\ HasStartCode(rec)
    /\ RecordTypeOf(rec) \notin RECORD_IDENTIFIER
    /\ Swallowed(rec)

Dispatched(rec, type) == InLoop(rec) /\ HasStartCode(rec) /\ RecordTypeOf(rec) = type

-----------------------------------------------------------------------------
(* IntelHex._parse: the fields of a record and their verification *)

RecordLengthOf(rec) == HexToInt(Slice(rec, RECORD_LENGTH, ADDRESS))

AddressOf(rec) == Slice(rec, ADDRESS, RECORD_TYPE)

DataOf(rec) == Slice(rec, DATA, CHECKSUM)

ChecksumOf(rec) == SliceFrom(rec, CHECKSUM)

_parse(rec) ==
    IF ~IsHexStr(Slice(rec, RECORD_LENGTH, ADDRESS)) THEN "ValueError"
    ELSE IF Len(DataOf(rec)) \div 2 # RecordLengthOf(rec) THEN "Record contains extra bytes"
    ELSE IF ~PairsAreHex(rec, 1) THEN "ValueError"
    ELSE IF ~_verify_checksum(rec) THEN "Checksum mismatch. Record is corrupted"
    ELSE "ok"

-----------------------------------------------------------------------------
(* The Segment accumulator *)

\* _update_segment_info(segment_address): the remaining fields take their defaults
_update_segment_info(new_segment_address) ==
    /\ segment_address' = new_segment_address
    /\ segment_data' = <<>>
    /\ lower_address' = 0
    /\ data_collected' = 0

\* variant: the Segment takes the lower 16 bits as its address
StoreSegmentLowerOnly ==
    IF segment_data # <<>>
    THEN Append(segments, Segment(FormatHex(lower_address, 8), segment_data))
    ELSE segments

\* variant: the run becomes a Segment whether or not it holds data
StoreSegmentAlways ==
    Append(segments, Segment(FormatHex(segment_address + lower_address, 8), segment_data))

\* "store previous parsed data segment": the run becomes a Segment if it holds data
StoreSegment ==
    IF segment_data # <<>>
    THEN Append(segments,
                Segment(FormatHex(segment_address + lower_address, 8), segment_data))
    ELSE segments

\* variant: a record that ends where the run starts is appended
CheckNextAddressNoPrepend(record_address, record_length, lower, collected) ==
    IF record_address + record_length = lower THEN "append"
    ELSE IF lower + collected = record_address THEN "append"
    ELSE IF record_address + record_length < lower THEN "hole"
    ELSE IF lower + collected < record_address THEN "hole"
    ELSE "duplicate"

\* variant: a record beyond the end of the run is taken as its continuation
CheckNextAddressFillsHole(record_address, record_length, lower, collected) ==
    IF record_address + record_length = lower THEN "prepend"
    ELSE IF lower + collected <= record_address THEN "append"
    ELSE IF record_address + record_length < lower THEN "hole"
    ELSE "duplicate"

\* variant: the last branch of the chain is a hole
CheckNextAddressNoDuplicate(record_address, record_length, lower, collected) ==
    IF record_address + record_length = lower THEN "prepend"
    ELSE IF lower + collected = record_address THEN "append"
    ELSE "hole"

\* the if/elif chain of _parse_data_record over the record and the run
CheckNextAddress(record_address, record_length, lower, collected) ==
    IF record_address + record_length = lower THEN "prepend"
    ELSE IF lower + collected = record_address THEN "append"
    ELSE IF record_address + record_length < lower THEN "hole"
    ELSE IF lower + collected < record_address THEN "hole"
    ELSE "duplicate"

\* variant: a record that ends where the run starts is put behind the run data
ParseDataRecordBehind(rec) ==
    /\ Dispatched(rec, DATA_RECORD)
    /\ LET outcome == _parse(rec)
           record_length == RecordLengthOf(rec)
           data == DataOf(rec)
           record_address == HexToInt(AddressOf(rec))
           lower == IF segment_data = <<>> THEN record_address ELSE lower_address
           case == CheckNextAddress(record_address, record_length, lower, data_collected)
       IN  IF outcome = "ValueError" THEN Swallowed(rec)
           ELSE IF outcome # "ok" THEN Rejected(rec, outcome)
           ELSE IF case \in {"prepend", "append"}
           THEN /\ segment_data' = segment_data \o data
                /\ lower_address' = IF case = "prepend" THEN record_address ELSE lower
                /\ data_collected' = data_collected + record_length
                /\ UNCHANGED <<segments, segment_address, start_address, end_of_file_reached>>
                /\ Continue(rec, end_of_file_reached)
           ELSE /\ lower_address' = lower
                /\ UNCHANGED <<segments, segment_address, segment_data, data_collected,
                               start_address, end_of_file_reached>>
                /\ Raise(rec, IF case = "hole"
                              THEN "TODO: Yet to be implemented"
                              ELSE "More than one data is stored on same address")

_parse_data_record(rec) ==
    /\ Dispatched(rec, DATA_RECORD)
    /\ LET outcome == _parse(rec)
           record_length == RecordLengthOf(rec)
           data == DataOf(rec)
           record_address == HexToInt(AddressOf(rec))
           \* the first data record of a run sets the lower 16 bits
           lower == IF segment_data = <<>> THEN record_address ELSE lower_address
           case == CheckNextAddress(record_address, record_length, lower, data_collected)
       IN  IF outcome = "ValueError" THEN Swallowed(rec)
           ELSE IF outcome # "ok" THEN Rejected(rec, outcome)
           ELSE IF case = "prepend"
           THEN /\ segment_data' = data \o segment_data
                /\ lower_address' = record_address
                /\ data_collected' = data_collected + record_length
                /\ UNCHANGED <<segments, segment_address, start_address, end_of_file_reached>>
                /\ Continue(rec, end_of_file_reached)
           ELSE IF case = "append"
           THEN /\ segment_data' = segment_data \o data
                /\ lower_address' = lower
                /\ data_collected' = data_collected + record_length
                /\ UNCHANGED <<segments, segment_address, start_address, end_of_file_reached>>
                /\ Continue(rec, end_of_file_reached)
           ELSE /\ lower_address' = lower
                /\ UNCHANGED <<segments, segment_address, segment_data, data_collected,
                               start_address, end_of_file_reached>>
                /\ Raise(rec, IF case = "hole"
                              THEN "TODO: Yet to be implemented"
                              ELSE "More than one data is stored on same address")

_parse_end_of_file_record(rec) ==
    /\ Dispatched(rec, END_OF_FILE_RECORD)
    /\ LET outcome == _parse(rec)
       IN  IF outcome = "ValueError" THEN Swallowed(rec)
           ELSE IF outcome # "ok" THEN Rejected(rec, outcome)
           ELSE /\ segments' = StoreSegment
                /\ _update_segment_info(0)
                /\ end_of_file_reached' = TRUE
                /\ UNCHANGED start_address
                /\ Continue(rec, TRUE)

\* variant: the new segment address is installed before the run is stored
ParseAddressRegisterNewBase(rec, shift) ==
    LET outcome == _parse(rec)
        base == HexToInt(DataOf(rec)) * shift
    IN  IF outcome = "ValueError" THEN Swallowed(rec)
        ELSE IF outcome # "ok" THEN Rejected(rec, outcome)
        ELSE IF RecordLengthOf(rec) # 2 THEN Rejected(rec, "Record length must be 2 bytes")
        ELSE /\ segments' = IF segment_data # <<>>
                            THEN Append(segments, Segment(FormatHex(base + lower_address, 8),
                                                          segment_data))
                            ELSE segments
             /\ _update_segment_info(base)
             /\ UNCHANGED <<start_address, end_of_file_reached>>
             /\ Continue(rec, end_of_file_reached)

\* variant: the run is stored before the length of the record is verified
ParseAddressRegisterStoresFirst(rec, shift) ==
    LET outcome == _parse(rec)
    IN  IF outcome = "ValueError" THEN Swallowed(rec)
        ELSE IF outcome # "ok" THEN Rejected(rec, outcome)
        ELSE IF RecordLengthOf(rec) # 2
        THEN /\ segments' = StoreSegment
             /\ _update_segment_info(segment_address)
             /\ UNCHANGED <<start_address, end_of_file_reached>>
             /\ Raise(rec, "Record length must be 2 bytes")
        ELSE /\ segments' = StoreSegment
             /\ _update_segment_info(HexToInt(DataOf(rec)) * shift)
             /\ UNCHANGED <<start_address, end_of_file_reached>>
             /\ Continue(rec, end_of_file_reached)

\* types 02 and 04 differ in the shift of the new segment address only
ParseAddressRegister(rec, shift) ==
    LET outcome == _parse(rec)
    IN  IF outcome = "ValueError" THEN Swallowed(rec)
        ELSE IF outcome # "ok" THEN Rejected(rec, outcome)
        ELSE IF RecordLengthOf(rec) # 2 THEN Rejected(rec, "Record length must be 2 bytes")
        ELSE /\ segments' = StoreSegment
             /\ _update_segment_info(HexToInt(DataOf(rec)) * shift)
             /\ UNCHANGED <<start_address, end_of_file_reached>>
             /\ Continue(rec, end_of_file_reached)

_parse_extended_segment_address_record(rec) ==
    /\ Dispatched(rec, EXTENDED_SEGMENT_ADDRESS_RECORD)
    /\ ParseAddressRegister(rec, 2 ^ 8)

_parse_extended_linear_address_record(rec) ==
    /\ Dispatched(rec, EXTENDED_LINEAR_ADDRESS_RECORD)
    /\ ParseAddressRegister(rec, 2 ^ 16)

\* `self.start_address == self.data`: an int never equals a str
SameStartAddress(recorded, data) == recorded = StrValue(data)

\* the start address a type 03 record stores: (CS << 4) + IP, an int
SegmentStartAddress(data) ==
    IntValue(HexToInt(Slice(data, 0, 4)) * 16 + HexToInt(SliceFrom(data, 4)))

\* the start address a type 05 record stores: the payload, a str
LinearStartAddress(data) == StrValue(data)

\* the address of the zero-length Segment that holds the start address
StartSegmentAddress(recorded) ==
    IF recorded.tag = "int" THEN FormatHex(recorded.val, 8) ELSE recorded.val

\* variant: a start-address record stores the run like an address register does
ParseStartAddressFlushes(rec, value) ==
    LET outcome == _parse(rec)
    IN  IF outcome = "ValueError" THEN Swallowed(rec)
        ELSE IF outcome # "ok" THEN Rejected(rec, outcome)
        ELSE IF RecordLengthOf(rec) # 4 THEN Rejected(rec, "Record length must be 4 bytes")
        ELSE IF start_address # EmptyStr
        THEN IF SameStartAddress(start_address, DataOf(rec))
             THEN Swallowed(rec)
             ELSE Rejected(rec, "More than one start address found")
        ELSE /\ start_address' = value
             /\ segments' = Append(StoreSegment, Segment(StartSegmentAddress(value), <<>>))
             /\ _update_segment_info(segment_address)
             /\ UNCHANGED end_of_file_reached
             /\ Continue(rec, end_of_file_reached)

\* variant: a later start-address record replaces the recorded one
ParseStartAddressAgain(rec, value) ==
    LET outcome == _parse(rec)
    IN  IF outcome = "ValueError" THEN Swallowed(rec)
        ELSE IF outcome # "ok" THEN Rejected(rec, outcome)
        ELSE IF RecordLengthOf(rec) # 4 THEN Rejected(rec, "Record length must be 4 bytes")
        ELSE /\ start_address' = value
             /\ segments' = Append(segments, Segment(StartSegmentAddress(value), <<>>))
             /\ UNCHANGED end_of_file_reached
             /\ UnchangedRun
             /\ Continue(rec, end_of_file_reached)

\* types 03 and 05 differ in the value they store only
ParseStartAddress(rec, value) ==
    LET outcome == _parse(rec)
    IN  IF outcome = "ValueError" THEN Swallowed(rec)
        ELSE IF outcome # "ok" THEN Rejected(rec, outcome)
        ELSE IF RecordLengthOf(rec) # 4 THEN Rejected(rec, "Record length must be 4 bytes")
        ELSE IF start_address # EmptyStr
        THEN IF SameStartAddress(start_address, DataOf(rec))
             THEN Swallowed(rec)
             ELSE Rejected(rec, "More than one start address found")
        ELSE /\ start_address' = value
             /\ segments' = Append(segments, Segment(StartSegmentAddress(value), <<>>))
             /\ UNCHANGED end_of_file_reached
             /\ UnchangedRun
             /\ Continue(rec, end_of_file_reached)

_parse_start_segment_address_record(rec) ==
    /\ Dispatched(rec, START_SEGMENT_ADDRESS_RECORD)
    /\ ParseStartAddress(rec, SegmentStartAddress(DataOf(rec)))

_parse_start_linear_address_record(rec) ==
    /\ Dispatched(rec, START_LINEAR_ADDRESS_RECORD)
    /\ ParseStartAddress(rec, LinearStartAddress(DataOf(rec)))

-----------------------------------------------------------------------------
(* The Segment splitter: IntelHex._compose_* *)

\* the line a _compose_*_record method appends for a record body
ComposedLine(body, terminated) ==
    <<COLON>> \o body \o _calculate_checksum(body)
        \o (IF terminated THEN <<NL>> ELSE <<>>)

_compose_data_record(data, lower) ==
    ComposedLine(FormatHex(Len(data) \div 2, 2) \o FormatHex(lower, 4)
                     \o DATA_RECORD \o data, TRUE)

_compose_end_of_file_record ==
    ComposedLine(<<0, 0, 0, 0, 0, 0>> \o END_OF_FILE_RECORD, FALSE)

\* variant: the address register is written as an extended segment address record
ComposeExtendedSegmentAddress(address) ==
    ComposedLine(<<0, 2, 0, 0, 0, 0>> \o EXTENDED_SEGMENT_ADDRESS_RECORD \o address, TRUE)

_compose_extended_linear_address_record(address) ==
    ComposedLine(<<0, 2, 0, 0, 0, 0>> \o EXTENDED_LINEAR_ADDRESS_RECORD \o address, TRUE)

_compose_start_linear_address_record(address) ==
    ComposedLine(<<0, 4, 0, 0, 0, 0>> \o START_LINEAR_ADDRESS_RECORD \o address, TRUE)

\* variant: the address of the data records does not advance
RECURSIVE ComposeDataRecordsSameAddress(_, _, _)
ComposeDataRecordsSameAddress(data, i, st) ==
    IF i >= Len(data) THEN st
    ELSE LET chunk == Slice(data, i, i + MAX_DATA_LENGTH)
         IN  ComposeDataRecordsSameAddress(data, i + MAX_DATA_LENGTH,
                 [lines |-> Append(st.lines, _compose_data_record(chunk, st.lower_address)),
                  lower_address |-> st.lower_address])

\* the while loop of _compose_segment: st holds self.lines and self.lower_address
RECURSIVE ComposeDataRecords(_, _, _)
ComposeDataRecords(data, i, st) ==
    IF i >= Len(data) THEN st
    ELSE LET chunk == Slice(data, i, i + MAX_DATA_LENGTH)
         IN  ComposeDataRecords(data, i + MAX_DATA_LENGTH,
                 [lines |-> Append(st.lines, _compose_data_record(chunk, st.lower_address)),
                  lower_address |-> st.lower_address + Len(chunk) \div 2])

_compose_segment(segment, st) ==
    IF segment.data = <<>>
    THEN [st EXCEPT !.lines =
             Append(@, _compose_start_linear_address_record(segment.address))]
    ELSE LET address == HexToInt(segment.address)
         IN  ComposeDataRecords(segment.data, 0,
                 [lines |-> Append(st.lines,
                      _compose_extended_linear_address_record(
                          FormatHex(address \div 65536, 4))),
                  lower_address |-> address % 65536])

\* `for segment in segments: self._compose_segment(segment)`
RECURSIVE ComposeSegments(_, _)
ComposeSegments(segs, st) ==
    IF segs = <<>> THEN st
    ELSE ComposeSegments(Tail(segs), _compose_segment(Head(segs), st))

\* compose(file_path, segments); has_segments is `segments is not None`
Compose(to_file, has_segments, segs) ==
    /\ pc = "idle"
    /\ calls < MaxCalls
    /\ calls' = calls + 1
    /\ fresh' = FALSE
    /\ raised' = "none"
    /\ record' = <<>>
    /\ LET extend == ~composed /\ parsed /\ has_segments
           kept == IF extend THEN Slice(lines, 0, 0 - 1) ELSE lines
           st == ComposeSegments(segs, [lines |-> kept, lower_address |-> lower_address])
       IN  /\ segments' = IF extend THEN segments \o segs ELSE segments
           /\ lines' = IF composed THEN lines
                       ELSE IF has_segments
                       THEN Append(st.lines, _compose_end_of_file_record)
                       ELSE kept
           /\ lower_address' = IF ~composed /\ has_segments
                               THEN st.lower_address ELSE lower_address
    /\ composed' = TRUE
    /\ file' = IF to_file THEN Concat(lines') ELSE file
    /\ origin' = IF to_file
                 THEN [by |-> IF has_segments /\ fresh THEN "compose" ELSE "recompose",
                       segments |-> IF has_segments THEN segs ELSE <<>>]
                 ELSE origin
    /\ UNCHANGED <<parsed, segment_address, segment_data, data_collected, start_address,
                   end_of_file_reached, pc, streaming, hex_file, ret, file_paths>>

\* IntelHex(): the caller constructs another instance and drops the old one
Construct ==
    /\ pc = "idle"
    /\ ~fresh
    /\ fresh' = TRUE
    /\ segments' = <<>>
    /\ lines' = <<>>
    /\ parsed' = FALSE
    /\ composed' = FALSE
    /\ segment_address' = 0
    /\ segment_data' = <<>>
    /\ lower_address' = 0
    /\ data_collected' = 0
    /\ start_address' = EmptyStr
    /\ end_of_file_reached' = FALSE
    /\ record' = <<>>
    /\ raised' = "none"
    /\ UNCHANGED <<pc, streaming, hex_file, file, ret, origin, calls, file_paths>>

\* the environment stores a document as the file, once, before any call
PutDocument(doc) ==
    /\ pc = "idle"
    /\ calls = 0
    /\ origin.by = "none"
    /\ file' = doc
    /\ origin' = [by |-> "env", segments |-> <<>>]
    /\ UNCHANGED self_vars
    /\ UNCHANGED <<pc, record, raised, streaming, hex_file, ret, calls, fresh,
                   file_paths>>

-----------------------------------------------------------------------------
(* Format.merge *)

\* the text a fresh instance writes for a Segment list
ComposedDocument(segs) ==
    Concat(Append(ComposeSegments(segs, [lines |-> <<>>, lower_address |-> 0]).lines,
                  _compose_end_of_file_record))

\* input files: composed files, whose Segment list is known, and other documents
MergeCatalog ==
    {[doc |-> ComposedDocument(l), segments |-> l, known |-> TRUE] : l \in MergeLists}
    \cup {[doc |-> d, segments |-> <<>>, known |-> FALSE] : d \in MixedDocuments}

MergeInputs == UNION {[1..n -> MergeCatalog] : n \in 0..MaxInputs}

\* merge(output_file, file_paths) is called on a fresh instance
MergeCall(inputs) ==
    /\ pc = "idle"
    /\ fresh
    /\ origin.by = "none"
    /\ fresh' = FALSE
    /\ file_paths' = [k \in 1..Len(inputs) |-> inputs[k].doc]
    /\ origin' = [by |-> IF \A k \in 1..Len(inputs) : inputs[k].known
                         THEN "merge" ELSE "merge_other",
                  segments |-> Concat([k \in 1..Len(inputs) |-> inputs[k].segments])]
    /\ UNCHANGED self_vars
    /\ UNCHANGED <<pc, record, raised, streaming, hex_file, file, ret, calls>>

InMerge == pc = "idle" /\ origin.by \in {"merge", "merge_other"} /\ raised = "none"

\* `for file_path in file_paths: self.parse(file_path)`: the entry of parse, with
\* its "already parsed" guard; the returned list is discarded
MergeParse ==
    /\ InMerge
    /\ file_paths # <<>>
    /\ file_paths' = Tail(file_paths)
    /\ record' = <<>>
    /\ UNCHANGED self_vars
    /\ UNCHANGED <<raised, file, ret, origin, calls, fresh>>
    /\ IF parsed
       THEN UNCHANGED <<pc, streaming, hex_file>>
       ELSE /\ pc' = "open"
            /\ streaming' = FALSE
            /\ hex_file' = Split(Head(file_paths))

\* `self.compose(output_file)`: no segments are given, the lines are written
MergeCompose ==
    /\ InMerge
    /\ file_paths = <<>>
    /\ composed' = TRUE
    /\ file' = Concat(lines)
    /\ origin' = [origin EXCEPT !.by = IF @ = "merge" THEN "merged" ELSE "merged_other"]
    /\ UNCHANGED <<segments, lines, parsed, segment_address, segment_data,
                   lower_address, data_collected, start_address, end_of_file_reached>>
    /\ UNCHANGED <<pc, record, raised, streaming, hex_file, ret, calls, fresh, file_paths>>

-----------------------------------------------------------------------------

Next ==
    \/ ParseCall(TRUE)
    \/ \E rec \in NextRecords : SkipEmptyLine(rec)
    \/ \E rec \in NextRecords : CheckStartCode(rec)
    \/ \E rec \in NextRecords : UnknownRecordType(rec)
    \/ \E rec \in NextRecords : _parse_data_record(rec)
    \/ \E rec \in NextRecords : _parse_end_of_file_record(rec)
    \/ \E rec \in NextRecords : _parse_extended_segment_address_record(rec)
    \/ \E rec \in NextRecords : _parse_start_segment_address_record(rec)
    \/ \E rec \in NextRecords : _parse_extended_linear_address_record(rec)
    \/ \E rec \in NextRecords : _parse_start_linear_address_record(rec)
    \/ ParseReturn

Spec == Init /\ [][Next]_vars

\* the lists a caller hands to compose: any list in the first call of the run;
\* later a copy of the list the last parse returned, or one more Segment
ComposeLists ==
    IF calls = 0 THEN SegmentLists
    ELSE {ret, <<DataSegment(512, 2)>>}

NextFile ==
    \/ \E doc \in Documents : PutDocument(doc)
    \/ Construct
    \/ ParseCall(FALSE)
    \/ \E rec \in NextRecords : SkipEmptyLine(rec)
    \/ \E rec \in NextRecords : CheckStartCode(rec)
    \/ \E rec \in NextRecords : UnknownRecordType(rec)
    \/ \E rec \in NextRecords : _parse_data_record(rec)
    \/ \E rec \in NextRecords : _parse_end_of_file_record(rec)
    \/ \E rec \in NextRecords : _parse_extended_segment_address_record(rec)
    \/ \E rec \in NextRecords : _parse_start_segment_address_record(rec)
    \/ \E rec \in NextRecords : _parse_extended_linear_address_record(rec)
    \/ \E rec \in NextRecords : _parse_start_linear_address_record(rec)
    \/ ParseReturn
    \/ \E to_file \in BOOLEAN, segs \in ComposeLists : Compose(to_file, TRUE, segs)
    \/ \E to_file \in BOOLEAN : Compose(to_file, FALSE, <<>>)

SpecFile == Init /\ [][NextFile]_vars

\* one instance parses one document that holds a record under test
InitChecksum ==
    /\ NewInstance
    /\ pc = "idle"
    /\ record = <<>>
    /\ raised = "none"
    /\ streaming = FALSE
    /\ hex_file = <<>>
    /\ file \in ChecksumDocuments
    /\ ret = <<>>
    /\ origin = [by |-> "env", segments |-> <<>>]
    /\ calls = 0
    /\ fresh = TRUE
    /\ file_paths = <<>>

NextChecksum ==
    \/ ParseCall(FALSE)
    \/ \E rec \in NextRecords : SkipEmptyLine(rec)
    \/ \E rec \in NextRecords : CheckStartCode(rec)
    \/ \E rec \in NextRecords : UnknownRecordType(rec)
    \/ \E rec \in NextRecords : _parse_data_record(rec)
    \/ \E rec \in NextRecords : _parse_end_of_file_record(rec)
    \/ \E rec \in NextRecords : _parse_extended_segment_address_record(rec)
    \/ \E rec \in NextRecords : _parse_start_segment_address_record(rec)
    \/ \E rec \in NextRecords : _parse_extended_linear_address_record(rec)
    \/ \E rec \in NextRecords : _parse_start_linear_address_record(rec)
    \/ ParseReturn

SpecChecksum == InitChecksum /\ [][NextChecksum]_vars

\* MotorolaSRecord(file_path=..., segments=segs): the constructor hands three
\* arguments to Format.__init__, which takes line_termination only, so the call
\* raises TypeError before any field of the object is set
MotorolaSRecord_init(segs) ==
    /\ pc = "idle"
    /\ origin.by = "none"
    /\ origin' = [by |-> "motorola", segments |-> segs]
    /\ raised' = "TypeError"
    /\ UNCHANGED self_vars
    /\ UNCHANGED <<pc, record, streaming, hex_file, file, ret, calls, fresh, file_paths>>

\* a caller converts a Segment list to Motorola S-Record
NextMotorola == \E segs \in ConvertedLists : MotorolaSRecord_init(segs)

SpecMotorola == Init /\ [][NextMotorola]_vars

\* SmartCard(file_path=..., segments=segs): the constructor hands three arguments
\* to Format.__init__, which takes line_termination only, so the call raises
\* TypeError before any field of the object is set
SmartCard_init(segs) ==
    /\ pc = "idle"
    /\ origin.by = "none"
    /\ origin' = [by |-> "smart_card", segments |-> segs]
    /\ raised' = "TypeError"
    /\ UNCHANGED self_vars
    /\ UNCHANGED <<pc, record, streaming, hex_file, file, ret, calls, fresh, file_paths>>

\* a caller composes a Segment list as a Smart-Card script
NextSmartCard == \E segs \in ConvertedLists : SmartCard_init(segs)

SpecSmartCard == Init /\ [][NextSmartCard]_vars

-----------------------------------------------------------------------------
(* SmartCard.parse: the command script parser (src/smart_card.py)           *)
(*                                                                          *)
(* The fields segments, lines, segment_address, segment_data,               *)
(* lower_address, data_collected and start_address stand for the fields of  *)
(* the same names of a SmartCard object, hex_file for the lines the loop    *)
(* has not read yet.  The object is the one that lines 31-48 of             *)
(* smart_card.py and Format.__init__ describe; the constructor of the class *)
(* itself stops before it assigns them (SmartCard_init), so the object      *)
(* stands for one that was built around that call.                          *)

SPACE == COLON + 3

SLASH == COLON + 4

(* CommandStructure *)
CLA == 0

INS == 2

P1 == 4

P2 == 6

LE_OR_LC == 8

COMMAND_DATA == 10

(* COMMAND_IDENTIFIER: the instruction bytes of the table *)
COMMAND_IDENTIFIER == {<<0, 1>>, <<0, 2>>, <<0, 3>>, <<0, 4>>}

SET_HIGH_ADDRESS_COMMAND == <<0, 1>>

ERASE_COMMAND == <<0, 2>>

WRITE_COMMAND == <<0, 3>>

SET_START_ADDRESS_COMMAND == <<0, 4>>

\* self.cla
cla == <<0, 0>>

\* line.find(self.comment): the index of the first '//', or -1
CommentIndex(line) ==
    LET at == {i \in 1..(Len(line) - 1) : line[i] = SLASH /\ line[i + 1] = SLASH}
    IN  IF at = {} THEN -1 ELSE (CHOOSE i \in at : \A j \in at : i <= j) - 1

\* line.replace(' ', '')
RemoveSpaces(line) == SelectSeq(line, LAMBDA c : c # SPACE)

\* the command of a line: the comment is cut off, then the spaces are removed
CommandOf(line) ==
    RemoveSpaces(IF CommentIndex(line) = -1 THEN line
                 ELSE Slice(line, 0, CommentIndex(line)))

(* Scripts the environment supplies *)

HighLine(v) ==
    <<0, 0, SPACE, 0, 1, SPACE, 0, 0, SPACE, 0, 0, SPACE, 0, 2, SPACE>> \o FormatHex(v, 4)

EraseLine(a, n) ==
    <<0, 0, SPACE, 0, 2, SPACE>> \o FormatHex(a, 4) \o <<SPACE, 0, 2, SPACE>>
        \o FormatHex(n, 4)

WriteLine(a, n) ==
    <<0, 0, SPACE, 0, 3, SPACE>> \o FormatHex(a, 4) \o <<SPACE>> \o FormatHex(n, 2)
        \o <<SPACE>> \o Payload(a, n)

SetStartLine(v) ==
    <<0, 0, SPACE, 0, 4, SPACE, 0, 0, SPACE, 0, 0, SPACE, 0, 4, SPACE>> \o FormatHex(v, 8)

CommentLine == <<SLASH, SLASH, SPACE, NonHex, NonHex>>

HighLines == {HighLine(1024), HighLine(1025)}

WriteLines == {WriteLine(a, n) : a \in {256, 257, 258, 512}, n \in {1, 2}}

SetStartLines == {SetStartLine(4096), SetStartLine(8192)}

\* one section of two write commands
SectionScripts ==
    {JoinLines(<<high, first, second>>) :
        high \in HighLines, first \in WriteLines, second \in WriteLines}

Scripts ==
    SectionScripts \cup
    { \* two sections, each a set-high-address command and a write command
      JoinLines(<<CommentLine, HighLine(1024), WriteLine(256, 2), HighLine(1025),
                  WriteLine(512, 1)>>),
      JoinLines(<<HighLine(1024), WriteLine(256, 2), HighLine(1025), WriteLine(258, 1)>>),
      \* one section with an erase command, abutting writes and an empty line
      JoinLines(<<HighLine(1024), EraseLine(256, 6), WriteLine(256, 2), WriteLine(258, 1),
                  <<>>>>),
      \* start addresses
      JoinLines(<<WriteLine(256, 1), SetStartLine(4096), WriteLine(257, 1)>>),
      JoinLines(<<SetStartLine(4096), SetStartLine(8192)>>),
      \* a write before the run, an unknown instruction, a command that ends early
      JoinLines(<<WriteLine(257, 1), WriteLine(256, 1), <<0, 0, SPACE, 0, 9, SPACE, 0, 0>>,
                  <<0, 0, SPACE, 0, 3, SPACE, 0, 1>>>>),
      \* a comment after a command, then a line of another class
      JoinLines(<<WriteLine(256, 1) \o <<SPACE>> \o CommentLine, <<SPACE, SPACE>>,
                  <<NonHex, NonHex, NonHex>>, WriteLine(257, 1)>>),
      \* a write on the addresses of the run, and a write beyond it
      JoinLines(<<WriteLine(256, 2), WriteLine(256, 1)>>),
      JoinLines(<<WriteLine(256, 1), WriteLine(258, 1)>>),
      \* a set-high-address command without its data, and one of 1 byte
      JoinLines(<<HighLine(1024), WriteLine(256, 1),
                  <<0, 0, SPACE, 0, 1, SPACE, 0, 0, SPACE, 0, 0, SPACE, 0, 2>>>>),
      JoinLines(<<WriteLine(256, 1),
                  <<0, 0, SPACE, 0, 1, SPACE, 0, 0, SPACE, 0, 0, SPACE, 0, 1, SPACE, 0, 4>>>>),
      \* an erase command of 1 byte, and a write with less data than announced
      JoinLines(<<EraseLine(256, 2), <<0, 0, SPACE, 0, 2, SPACE, 0, 1, 0, 0, SPACE, 0, 1,
                                       SPACE, 0, 2>>>>),
      JoinLines(<<<<0, 0, SPACE, 0, 3, SPACE, 0, 1, 0, 0, SPACE, 0, 2, SPACE, 10, 10>>>>) }

(* The fields of a command *)

P1Of(command) == Slice(command, P1, P2)

P2Of(command) == Slice(command, P2, LE_OR_LC)

LeOrLcOf(command) == Slice(command, LE_OR_LC, COMMAND_DATA)

CommandDataOf(command) == SliceFrom(command, COMMAND_DATA)

\* SmartCard._parse(command)
SmartCard__parse(command) ==
    IF ~IsHexStr(LeOrLcOf(command)) THEN "ValueError"
    ELSE IF /\ CommandDataOf(command) # <<>>
            /\ Len(CommandDataOf(command)) \div 2 # HexToInt(LeOrLcOf(command))
    THEN "Invalid command: 0x{self.le_or_lc} byte of data expected"
    ELSE "ok"

(* The loop of SmartCard.parse *)

ScriptLines == IF hex_file # <<>> THEN {Head(hex_file)} ELSE {}

InScript(line) == pc = "script" /\ line \in ScriptLines

\* the iteration ends and the loop takes the next line
ScriptContinue(line) ==
    /\ hex_file' = Tail(hex_file)
    /\ record' = line
    /\ raised' = "none"
    /\ UNCHANGED <<pc, lines, parsed, composed, end_of_file_reached, streaming, file,
                   ret, origin, calls, fresh, file_paths>>

\* an exception leaves the loop and parse
ScriptRaise(line, exception) ==
    /\ hex_file' = <<>>
    /\ record' = line
    /\ raised' = exception
    /\ pc' = "idle"
    /\ UNCHANGED <<lines, parsed, composed, end_of_file_reached, streaming, file,
                   ret, origin, calls, fresh, file_paths>>

ScriptSwallowed(line) ==
    /\ UNCHANGED <<segments, start_address>>
    /\ UnchangedRun
    /\ ScriptContinue(line)

ScriptRejected(line, exception) ==
    /\ UNCHANGED <<segments, start_address>>
    /\ UnchangedRun
    /\ ScriptRaise(line, exception)

\* parse(): the file of the object is read and split into self.lines
SmartCard_parse ==
    /\ pc = "idle"
    /\ calls < MaxCalls
    /\ calls' = calls + 1
    /\ lines' = Split(file)
    /\ hex_file' = Split(file)
    /\ pc' = "script"
    /\ raised' = "none"
    /\ record' = <<>>
    /\ UNCHANGED <<segments, start_address, parsed, composed, end_of_file_reached,
                   streaming, file, ret, origin, fresh, file_paths>>
    /\ UnchangedRun

\* `if len(line) == 0: continue`
SkipBlankLine(line) ==
    /\ InScript(line)
    /\ line = <<>>
    /\ ScriptSwallowed(line)

\* `if len(command) == 0: continue`: the line held a comment or spaces only
SkipBlankCommand(line) ==
    /\ InScript(line)
    /\ line # <<>>
    /\ CommandOf(line) = <<>>
    /\ ScriptSwallowed(line)

HasClassByte(line) ==
    /\ CommandOf(line) # <<>>
    /\ Slice(CommandOf(line), CLA, INS) = cla

CheckClassByte(line) ==
    /\ InScript(line)
    /\ CommandOf(line) # <<>>
    /\ Slice(CommandOf(line), CLA, INS) # cla
    /\ ScriptRejected(line, "Class byte is invalid")

InsByteOf(line) == Slice(CommandOf(line), INS, P1)

\* COMMAND_IDENTIFIER[ins_byte] raises KeyError, which the loop drops
UnknownCommand(line) ==
    /\ InScript(line)
    /\ HasClassByte(line)
    /\ InsByteOf(line) \notin COMMAND_IDENTIFIER
    /\ ScriptSwallowed(line)

CommandDispatched(line, ins) ==
    InScript(line) /\ HasClassByte(line) /\ InsByteOf(line) = ins

\* "store previous parsed data segment"
SmartCardStoreSegment ==
    IF segment_data # <<>>
    THEN Append(segments,
                Segment(FormatHex(segment_address + lower_address, 8), segment_data))
    ELSE segments

_parse_set_high_address_command(line) ==
    /\ CommandDispatched(line, SET_HIGH_ADDRESS_COMMAND)
    /\ LET command == CommandOf(line)
           outcome == SmartCard__parse(command)
           data == CommandDataOf(command)
       IN  IF outcome = "ValueError" THEN ScriptSwallowed(line)
           ELSE IF outcome # "ok" THEN ScriptRejected(line, outcome)
           ELSE IF HexToInt(LeOrLcOf(command)) # 2
           THEN ScriptRejected(line, "Command length must be 2 bytes")
           ELSE IF ~IsHexStr(data)
           \* int(self.data, 16) raises ValueError after the run was stored
           THEN /\ segments' = SmartCardStoreSegment
                /\ UNCHANGED start_address
                /\ UnchangedRun
                /\ ScriptContinue(line)
           ELSE /\ segments' = SmartCardStoreSegment
                /\ segment_address' = HexToInt(data) * (2 ^ 16)
                /\ segment_data' = <<>>
                /\ UNCHANGED <<lower_address, data_collected, start_address>>
                /\ ScriptContinue(line)

_parse_erase_command(line) ==
    /\ CommandDispatched(line, ERASE_COMMAND)
    /\ LET command == CommandOf(line)
           outcome == SmartCard__parse(command)
       IN  IF outcome = "ValueError" THEN ScriptSwallowed(line)
           ELSE IF outcome # "ok" THEN ScriptRejected(line, outcome)
           ELSE IF HexToInt(LeOrLcOf(command)) # 2
           THEN ScriptRejected(line, "Command length must be 2 bytes")
           ELSE ScriptSwallowed(line)

\* the if/elif chain of _parse_write_command over the command and the run
WriteCheckNextAddress(address, data_length, lower, collected) ==
    IF address + data_length = lower THEN "prepend"
    ELSE IF lower + collected = address THEN "append"
    ELSE IF address + data_length < lower THEN "hole"
    ELSE IF lower + collected < address THEN "hole"
    ELSE "duplicate"

_parse_write_command(line) ==
    /\ CommandDispatched(line, WRITE_COMMAND)
    /\ LET command == CommandOf(line)
           outcome == SmartCard__parse(command)
           data_length == HexToInt(LeOrLcOf(command))
           data == CommandDataOf(command)
           address == P1Of(command) \o P2Of(command)
           _address == HexToInt(address)
           lower == IF segment_data = <<>> THEN _address ELSE lower_address
           case == WriteCheckNextAddress(_address, data_length, lower, data_collected)
       IN  IF outcome = "ValueError" THEN ScriptSwallowed(line)
           ELSE IF outcome # "ok" THEN ScriptRejected(line, outcome)
           ELSE IF ~IsHexStr(address) THEN ScriptSwallowed(line)
           ELSE IF case = "prepend"
           THEN /\ segment_data' = data \o segment_data
                /\ lower_address' = _address
                /\ data_collected' = data_collected + data_length
                /\ UNCHANGED <<segments, segment_address, start_address>>
                /\ ScriptContinue(line)
           ELSE IF case = "append"
           THEN /\ segment_data' = segment_data \o data
                /\ lower_address' = lower
                /\ data_collected' = data_collected + data_length
                /\ UNCHANGED <<segments, segment_address, start_address>>
                /\ ScriptContinue(line)
           ELSE /\ lower_address' = lower
                /\ UNCHANGED <<segments, segment_address, segment_data, data_collected,
                               start_address>>
                /\ ScriptRaise(line, IF case = "hole"
                                     THEN "TODO: Yet to be implemented"
                                     ELSE "More than one data is stored on same address")

\* instruction 04: the table names SET_START_ADDRESS_COMMAND, and the object has
\* no method _parse_set_start_address_command (the method of the class is
\* _parse_set_start_command), so the lookup raises AttributeError, which the loop
\* does not catch
DispatchSetStartAddress(line) ==
    /\ CommandDispatched(line, SET_START_ADDRESS_COMMAND)
    /\ ScriptRejected(line, "AttributeError")

\* the loop is over: _end_of_file() and `return self.segments`
_end_of_file ==
    /\ pc = "script"
    /\ hex_file = <<>>
    /\ segments' = SmartCardStoreSegment
    /\ segment_address' = 0
    /\ segment_data' = <<>>
    /\ ret' = segments'
    /\ pc' = "idle"
    /\ UNCHANGED <<lines, parsed, composed, lower_address, data_collected, start_address,
                   end_of_file_reached, record, raised, streaming, hex_file, file,
                   origin, calls, fresh, file_paths>>

\* a SmartCard object with the fields of lines 31-48 and the script of its file
InitScript ==
    /\ NewInstance
    /\ pc = "idle"
    /\ record = <<>>
    /\ raised = "none"
    /\ streaming = FALSE
    /\ hex_file = <<>>
    /\ file \in Scripts
    /\ ret = <<>>
    /\ origin = [by |-> "script", segments |-> <<>>]
    /\ calls = 0
    /\ fresh = TRUE
    /\ file_paths = <<>>

NextScript ==
    \/ SmartCard_parse
    \/ \E line \in ScriptLines : SkipBlankLine(line)
    \/ \E line \in ScriptLines : SkipBlankCommand(line)
    \/ \E line \in ScriptLines : CheckClassByte(line)
    \/ \E line \in ScriptLines : UnknownCommand(line)
    \/ \E line \in ScriptLines : _parse_set_high_address_command(line)
    \/ \E line \in ScriptLines : _parse_erase_command(line)
    \/ \E line \in ScriptLines : _parse_write_command(line)
    \/ \E line \in ScriptLines : DispatchSetStartAddress(line)
    \/ _end_of_file

SpecScript == InitScript /\ [][NextScript]_vars

\* one instance merges a list of input files
NextMerge ==
    \/ \E inputs \in MergeInputs : MergeCall(inputs)
    \/ MergeParse
    \/ \E rec \in NextRecords : SkipEmptyLine(rec)
    \/ \E rec \in NextRecords : CheckStartCode(rec)
    \/ \E rec \in NextRecords : UnknownRecordType(rec)
    \/ \E rec \in NextRecords : _parse_data_record(rec)
    \/ \E rec \in NextRecords : _parse_end_of_file_record(rec)
    \/ \E rec \in NextRecords : _parse_extended_segment_address_record(rec)
    \/ \E rec \in NextRecords : _parse_start_segment_address_record(rec)
    \/ \E rec \in NextRecords : _parse_extended_linear_address_record(rec)
    \/ \E rec \in NextRecords : _parse_start_linear_address_record(rec)
    \/ ParseReturn
    \/ MergeCompose

SpecMerge == Init /\ [][NextMerge]_vars


-----------------------------------------------------------------------------
(* Properties *)

Terminated(rec) == rec \o <<NL>>

DataSegmentsOf(segs) == SelectSeq(segs, LAMBDA seg : seg.data # <<>>)

\* a step of the parse loop: it reads record'
LoopStep == pc \in {"open", "loop"} /\ ~parsed'

\* the segment base the saved lines ls install, for the registers of StreamLines
BaseOf(ls) ==
    LET regs == {k \in 1..Len(ls) : ls[k] \in {Terminated(r) : r \in RegisterLines}}
    IN  IF regs = {} THEN 0
        ELSE LET last == CHOOSE k \in regs : \A j \in regs : j <= k
             IN  IF ls[last] = Terminated(EsaLine(4096))
                 THEN 4096 * (2 ^ 8) ELSE 1024 * (2 ^ 16)

\* C1: two abutting valid data records A = (a, n bytes) and B = (a + n, m bytes),
\* n + m > 0, read in either order on an empty run and followed by an end-of-file
\* record, yield exactly one data Segment: its address is segment_base + a and its
\* data is A's payload followed by B's payload (n + m bytes).
C1_AbuttingRecordsMerge ==
    \A a \in DataAddrs, n \in DataLens, m \in DataLens :
        LET k == Len(lines)
            A == Terminated(DataLine(a, n))
            B == Terminated(DataLine(a + n, m))
        IN  ( /\ n + m > 0
              /\ k >= 3
              /\ lines[k] = Terminated(EofLine)
              /\ <<lines[k - 2], lines[k - 1]>> \in {<<A, B>>, <<B, A>>}
              /\ \A j \in 1..(k - 3) : RecordTypeOf(lines[j]) # DATA_RECORD )
            => DataSegmentsOf(segments) =
                   << Segment(FormatHex(BaseOf(SubSeq(lines, 1, k - 3)) + a, 8),
                              Payload(a, n) \o Payload(a + n, m)) >>

\* the prepend order has been read: B = (257, 2 bytes), then A = (256, 1 byte)
C1_Witness ==
    /\ lines = << Terminated(DataLine(257, 2)), Terminated(DataLine(256, 1)),
                  Terminated(EofLine) >>
    /\ Len(segments) = 1
    /\ Len(segments[1].data) = 6

\* C2: when the run is not empty and a valid data record arrives that leaves a gap
\* before the run (record_address + record_length < run_start) or after it
\* (run_start + collected_bytes < record_address), the parse call fails: the hole
\* error leaves parse, and neither the Segment list nor the run takes the record.
C2_GapRejected ==
    [][ \A a \in DataAddrs, n \in DataLens :
          ( /\ LoopStep
            /\ record' = DataLine(a, n)
            /\ segment_data # <<>>
            /\ \/ a + n < lower_address
               \/ lower_address + data_collected < a )
          => ( /\ pc' = "idle"
               /\ raised' = "TODO: Yet to be implemented"
               /\ ~parsed'
               /\ segments' = segments
               /\ segment_data' = segment_data ) ]_vars

\* a record at 258 was refused on the run [256, 257)
C2_Witness ==
    /\ raised = "TODO: Yet to be implemented"
    /\ record \in DataLines
    /\ lower_address = 256
    /\ data_collected = 1
    /\ segment_data = Payload(256, 1)

\* C3: when the run is not empty and a valid data record of non-zero length covers
\* an address inside [run_start, run_start + collected_bytes), the parse call fails
\* with the duplicate-address error and the run is left as it was.
C3_DuplicateRejected ==
    [][ \A a \in DataAddrs, n \in DataLens :
          ( /\ LoopStep
            /\ record' = DataLine(a, n)
            /\ n > 0
            /\ segment_data # <<>>
            /\ a < lower_address + data_collected
            /\ lower_address < a + n )
          => ( /\ pc' = "idle"
               /\ raised' = "More than one data is stored on same address"
               /\ ~parsed'
               /\ segments' = segments
               /\ segment_data' = segment_data
               /\ lower_address' = lower_address
               /\ data_collected' = data_collected ) ]_vars

\* the record (256, 2 bytes) was refused a second time
C3_Witness ==
    /\ raised = "More than one data is stored on same address"
    /\ record = DataLine(256, 2)
    /\ lines = <<Terminated(DataLine(256, 2))>>
    /\ segment_data = Payload(256, 2)

\* some record with a flipped checksum digit precedes every end-of-file record
FlippedBeforeEof(text) ==
    LET ls == Split(text)
    IN  \E k \in 1..Len(ls) :
            /\ ls[k] \in FlippedRecords
            /\ \A j \in 1..(k - 1) : ls[j] # EofLine

\* C4: a record of any type with one digit of its checksum field replaced by another
\* digit fails the parse that reads it with the checksum error, and parse never
\* returns a Segment list for a document in which such a record precedes the
\* end-of-file record.
C4_FlippedChecksumRejected ==
    /\ record \in FlippedRecords
          => ( /\ pc = "idle"
               /\ raised = "Checksum mismatch. Record is corrupted"
               /\ ~parsed )
    /\ FlippedBeforeEof(file) => ( /\ ~parsed
                                   /\ (pc = "idle" /\ ~fresh) => raised # "none" )

\* the low checksum digit of a start-linear-address record, read after other lines
C4_Witness ==
    /\ raised = "Checksum mismatch. Record is corrupted"
    /\ \E digit \in 0..15 : record = FlipChecksum(SlaLine(4096), 2, digit)
    /\ Len(lines) = 4

\* a composed line that holds whole bytes after its start code
WholeBytes(rec) == Len(rec) % 2 = 1 /\ IsHexStr(Tail(rec))

\* C5: for every line the composer emits whose body is whole bytes, the checksum
\* byte c written by _calculate_checksum makes (sum of the body bytes + c) mod 256
\* = 0, and _verify_checksum accepts the line.
C5_ComposedChecksumVerifies ==
    origin.by = "compose" =>
        \A k \in 1..Len(Split(file)) :
            LET rec == Split(file)[k]
                body == Slice(rec, 1, 0 - 2)
            IN  WholeBytes(rec) =>
                    /\ (PairSum(body, 0) + HexToInt(ChecksumOf(rec))) % 256 = 0
                    /\ _verify_checksum(rec)

\* a file with an address, two data, a start-address and an end-of-file record
C5_Witness ==
    /\ origin.by = "compose"
    /\ origin.segments = <<DataSegment(65536, 17), MarkerSegment(4096)>>
    /\ Len(Split(file)) = 5

\* a data Segment that lies inside one 64 KiB page
WithinPage(seg) ==
    /\ seg.data # <<>>
    /\ (HexToInt(seg.address) % 65536) + Len(seg.data) \div 2 <= 65536

Disjoint(s, t) ==
    \/ HexToInt(s.address) + Len(s.data) \div 2 <= HexToInt(t.address)
    \/ HexToInt(t.address) + Len(t.data) \div 2 <= HexToInt(s.address)

\* a fresh instance composed origin.segments into the file, and this instance has
\* made one pass over that file and returned
RoundTripDone ==
    /\ pc = "idle"
    /\ parsed
    /\ ~composed
    /\ origin.by = "compose"
    /\ Concat(lines) = Terminated(file)

\* C6: a list of pairwise non-overlapping data Segments, each inside one 64 KiB page,
\* composed on a fresh instance and parsed on another one, comes back with the same
\* number of Segments in the same order, with identical addresses and data.
C6_RoundTripData ==
    LET given == origin.segments
    IN  ( /\ RoundTripDone
          /\ \A i \in 1..Len(given) : WithinPage(given[i])
          /\ \A i, j \in 1..Len(given) : i # j => Disjoint(given[i], given[j]) )
        => (ret = given /\ segments = given)

\* two Segments next to each other, three data records
C6_Witness ==
    /\ RoundTripDone
    /\ origin.segments = <<DataSegment(65520, 16), DataSegment(65536, 17)>>
    /\ Len(ret) = 2

\* C7: in the round trip of a list of data Segments with one zero-length start-marker
\* Segment at index i, the zero-length Segment comes back at index i.
C7_MarkerKeepsIndex ==
    LET given == origin.segments
    IN  \A i \in 1..Len(given) :
            ( /\ RoundTripDone
              /\ Len(given) > 1
              /\ given[i].data = <<>>
              /\ \A j \in 1..Len(given) : j # i => WithinPage(given[j]) )
            => (Len(ret) = Len(given) /\ ret[i].data = <<>>)

\* what a finished parse of `doc` by an instance that only parsed must have given
ParsesTo(doc, segs) ==
    (file = doc /\ origin.by = "env" /\ pc = "idle" /\ ~fresh /\ ~composed)
        => (raised = "none" /\ parsed /\ ret = segs)

\* what a fresh instance must have written for the list `segs`
ComposesTo(segs, doc) ==
    origin = [by |-> "compose", segments |-> segs] => file = doc

\* C8 as stated: the document with the checksum bytes 3E and CA parses to the one
\* Segment 04000000 / 00112233, and composing that Segment gives the document back.
C8_ScenarioAsPrinted ==
    /\ ParsesTo(ScenarioDocument, <<ScenarioSegment>>)
    /\ ComposesTo(<<ScenarioSegment>>, ScenarioDocument)

\* C8: the scenario's three records with the checksum bytes F6, 96 and FF parse to
\* exactly one Segment, address 04000000 and data 00112233, and composing that
\* Segment yields the same three records with the same checksum bytes.
C8_ScenarioWithChecksums ==
    /\ ParsesTo(JoinLines(ScenarioRecords), <<ScenarioSegment>>)
    /\ ComposesTo(<<ScenarioSegment>>, JoinLines(ScenarioRecords))

C8_Witness ==
    /\ file = JoinLines(ScenarioRecords)
    /\ origin.by = "env"
    /\ pc = "idle"
    /\ parsed
    /\ ~composed
    /\ ret = <<ScenarioSegment>>

\* the first start-address line among the saved lines, or <<>>
FirstStartLine(ls) ==
    LET idx == {k \in 1..Len(ls) : ls[k] \in {Terminated(r) : r \in StartLines}}
    IN  IF idx = {} THEN <<>>
        ELSE LET first == CHOOSE k \in idx : \A j \in idx : k <= j
             IN  SubSeq(ls[first], 1, Len(ls[first]) - 1)

\* C9: for both start-address record types, a second start-address record with the
\* payload of the first does not fail the parse and adds no Segment, and one with
\* another payload fails the parse with the duplicate-start-address error.
C9_DuplicateStartTolerated ==
    [][ \A rec \in StartLines :
          (LoopStep /\ record' = rec /\ FirstStartLine(lines) # <<>>)
          => IF DataOf(rec) = DataOf(FirstStartLine(lines))
             THEN raised' = "none" /\ pc' # "idle" /\ segments' = segments
             ELSE pc' = "idle" /\ raised' = "More than one start address found" ]_vars

\* C10: parse never returns normally, nor sets parsed, unless an end-of-file record
\* has been read.
C10_MissingEofFatal == parsed => end_of_file_reached

\* C11: a non-empty line whose record type is not in the identifier table, a line
\* too short to hold its fixed-width fields, or a line with a non-hex symbol makes
\* the parse call fail: the call ends with an error and the line is not saved.
C11_StructuralErrorAborts ==
    [][ \A rec \in StructuralErrorLines :
          (LoopStep /\ record' = rec)
          => (pc' = "idle" /\ raised' # "none" /\ lines' = lines) ]_vars

\* the text holds a data record with the first bytes of the Segment
ContainsData(text, seg) ==
    \E k \in 1..Len(Split(text)) :
        LET rec == Split(text)[k]
        IN  /\ RecordTypeOf(rec) = DATA_RECORD
            /\ DataOf(rec) = Slice(seg.data, 0, MAX_DATA_LENGTH)

\* C12: after merge(output, [f1, ..., fn]) on a fresh instance, the Segment list of
\* the instance is the concatenation, in input order, of the lists that parsing the
\* input files one by one gives, and the output holds the data of every input file.
C12_MergeConcatenates ==
    origin.by = "merged" =>
        /\ segments = origin.segments
        /\ \A i \in 1..Len(origin.segments) : ContainsData(file, origin.segments[i])

\* C13: once a parse call has returned normally, a later parse call on the same
\* instance returns the retained Segment list, which is the list the earlier call
\* returned as long as no compose call came in between, leaves segments, lines and
\* the accumulation fields unchanged, and does not read the document.
C13_ParseIdempotent ==
    [][ (parsed /\ ParseCall(FALSE))
        => ( /\ ret' = segments
             /\ ~composed => ret' = ret
             /\ UNCHANGED self_vars
             /\ UNCHANGED <<pc, hex_file, file>> ) ]_vars

\* a second parse call has returned the Segment of the scenario document
C13_Witness ==
    /\ parsed
    /\ ~composed
    /\ pc = "idle"
    /\ calls = 2
    /\ record = <<>>
    /\ ret = <<ScenarioSegment>>
    /\ segments = ret

\* C14: on an instance that has parsed a document, every compose call that supplies
\* segments appends them to the retained Segment list and adds their records to the
\* composed lines, also when it is not the first such call.
C14_IncrementalCompose ==
    [][ \A to_file \in BOOLEAN, segs \in ComposeLists :
          ( /\ parsed
            /\ segs # <<>>
            \* an earlier compose call, if any, has added its segments to the list
            /\ composed => segments # ret
            /\ Compose(to_file, TRUE, segs) )
          => ( /\ segments' = segments \o segs
               /\ \A i \in 1..Len(segs) :
                      segs[i].data # <<>> => ContainsData(Concat(lines'), segs[i]) ) ]_vars

\* C15: in a list parse returns, no two Segments with data overlap: their byte
\* ranges [address, address + length) are disjoint.
C15_ReturnedSegmentsDisjoint ==
    (parsed /\ ~composed /\ pc = "idle") =>
        \A i, j \in 1..Len(ret) :
            (i # j /\ ret[i].data # <<>> /\ ret[j].data # <<>>) => Disjoint(ret[i], ret[j])

\* the line list holds one end-of-file record: its last line, ':00000001FF' with no
\* line termination after it
OneEofLast(ls) ==
    /\ ls # <<>>
    /\ ls[Len(ls)] = <<COLON, 0, 0, 0, 0, 0, 0, 0, 1, 15, 15>>
    /\ \A k \in 1..(Len(ls) - 1) : RecordTypeOf(ls[k]) # END_OF_FILE_RECORD

\* C16: the line list the first compose call of an instance returns, for a call with
\* segments (an empty list included) or a call without segments on an instance whose
\* parse has read an end-of-file record, holds exactly one end-of-file record: it is the last line,
\* it equals ':00000001FF' and it carries no line termination.
C16_ComposedLinesEndWithEof ==
    [][ \A to_file \in BOOLEAN, has_segments \in BOOLEAN, segs \in ComposeLists :
          ( /\ ~composed
            /\ has_segments \/ parsed
            /\ parsed => end_of_file_reached
            /\ Compose(to_file, has_segments, IF has_segments THEN segs ELSE <<>>) )
          => OneEofLast(lines') ]_vars

\* C17: for every list of data Segments, the conversion through Motorola S-Record
\* (compose and parse as Motorola S-Record, then compose and parse as Intel HEX)
\* does not fail and gives Segments with the same addresses and the same data.
C17_ConversionPreservesBytes ==
    origin.by = "motorola" => (raised = "none" /\ ret = origin.segments)

\* C18: for every list of data Segments, the script SmartCard compose writes is
\* accepted by SmartCard parse: the round trip does not fail, and parse returns
\* Segments with the same addresses and data in the same order.
C18_SmartCardRoundTrip ==
    origin.by = "smart_card" => (raised = "none" /\ ret = origin.segments)

\* the Segment list after the run has been stored, written out
Flushed ==
    IF segment_data # <<>>
    THEN segments \o <<[address |-> FormatHex(segment_address + lower_address, 8),
                        data |-> segment_data]>>
    ELSE segments

\* C19: a valid type 02 or 04 record of length 2 appends exactly one Segment, with
\* the address old segment_base + run_start and the run data, if the run is not
\* empty, and none if it is empty; afterwards run_start = 0, collected_bytes = 0,
\* the run data is empty and segment_base is the value shifted left by 8 (type 02)
\* or by 16 (type 04).
C19_AddressRegisterFlush ==
    [][ \A rec \in RegisterLines :
          (LoopStep /\ record' = rec)
          => ( /\ raised' = "none"
               /\ segments' = Flushed
               /\ lower_address' = 0
               /\ data_collected' = 0
               /\ segment_data' = <<>>
               /\ segment_address' = IF rec = EsaLine(4096)
                                     THEN 4096 * 256 ELSE 1024 * 65536 ) ]_vars

\* the run at 0x0100 under the type 02 base was stored when the type 04 record came
C19_Witness ==
    /\ lines = <<Terminated(EsaLine(4096)), Terminated(DataLine(256, 2)),
                 Terminated(ElaLine(1024))>>
    /\ segments = <<Segment(FormatHex(4096 * 256 + 256, 8), Payload(256, 2))>>
    /\ segment_address = 1024 * 65536
    /\ segment_data = <<>>

\* C20: a valid type 01 record stores a non-empty run as a Segment, resets the
\* accumulation fields and sets end_of_file_reached; once an end-of-file record has
\* been read, no step changes segments, the retained lines or an accumulation field,
\* whatever follows the record in the document.
C20_EndOfFileStops ==
    [][ /\ (LoopStep /\ record' = EofLine)
           => ( /\ raised' = "none"
                /\ segments' = Flushed
                /\ segment_address' = 0
                /\ lower_address' = 0
                /\ data_collected' = 0
                /\ segment_data' = <<>>
                /\ end_of_file_reached' )
        /\ end_of_file_reached
           => UNCHANGED <<segments, lines, segment_address, segment_data, lower_address,
                          data_collected, start_address, end_of_file_reached>> ]_vars

\* the loop was left with a valid data record still unread after the end of file
C20_Witness ==
    /\ pc = "after"
    /\ end_of_file_reached
    /\ hex_file = <<DataLine(257, 1)>>
    /\ segments = <<DataSegment(256, 1)>>
    /\ segment_data = <<>>

\* C21: when the first compose call with segments S is made on an instance whose
\* parse has returned, exactly one retained line is removed and it is the end-of-file
\* record parse read; every other parsed line is retained in its order, followed by
\* the records composed from S and one end-of-file record, and the Segment list
\* becomes the parsed Segments followed by S.
C21_ComposeAfterParse ==
    [][ \A to_file \in BOOLEAN, segs \in ComposeLists :
          (parsed /\ ~composed /\ Compose(to_file, TRUE, segs))
          => ( /\ lines # <<>>
               /\ lines[Len(lines)] = Terminated(EofLine)
               /\ Len(lines') >= Len(lines)
               /\ SubSeq(lines', 1, Len(lines) - 1) = SubSeq(lines, 1, Len(lines) - 1)
               /\ Concat(SubSeq(lines', Len(lines), Len(lines'))) = ComposedDocument(segs)
               /\ segments' = segments \o segs ) ]_vars

\* the records of a data Segment of n bytes, written out: one extended linear
\* address record, then ceil(n / 16) data records of 16 bytes, the last of the rest
RecordCount(seg) == (Len(seg.data) \div 2 + 15) \div 16

\* the payload of the k-th data record, k = 0, 1, ...
Chunk(seg, k) == SubSeq(seg.data, 32 * k + 1, Min(32 * (k + 1), Len(seg.data)))

SplitOf(seg) ==
    LET address == HexToInt(seg.address)
        n == Len(seg.data) \div 2
    IN  <<ElaLine(address \div 65536)>>
        \o [k \in 1..RecordCount(seg) |->
              MakeRecord(Min(16, n - 16 * (k - 1)),
                         (address % 65536) + 16 * (k - 1),
                         DATA_RECORD,
                         Chunk(seg, k - 1))]

\* C22: for a data Segment of n bytes _compose_segment emits one extended linear
\* address record with the payload address >> 16, then ceil(n / 16) data records:
\* each carries at most 16 bytes, all but the last exactly 16, the k-th one has the
\* address (address & 0xFFFF) + 16 * k, and their payloads in order are the data.
C22_SplitterOutput ==
    LET given == origin.segments
    IN  (origin.by = "compose" /\ \A i \in 1..Len(given) : given[i].data # <<>>)
        => /\ Split(file) =
                  Concat([i \in 1..Len(given) |-> SplitOf(given[i])]) \o <<EofLine>>
           /\ \A i \in 1..Len(given) :
                  Concat([k \in 1..RecordCount(given[i]) |-> Chunk(given[i], k - 1)])
                      = given[i].data

\* a Segment of 17 bytes was split into a record of 16 bytes and one of 1 byte
C22_Witness ==
    /\ origin.by = "compose"
    /\ origin.segments = <<DataSegment(65536, 17)>>
    /\ Len(Split(file)) = 4
    /\ RecordLengthOf(Split(file)[2]) = 16
    /\ RecordLengthOf(Split(file)[3]) = 1

\* C23: every data record written by compose has a 16-bit address field: the
\* record is the start code, 2 digits of length, exactly 4 digits of
\* address, 2 digits of type, the payload and 2 digits of checksum, also for
\* a Segment whose bytes run past the end of its 64 KiB page.
C23_AddressFieldWidth ==
    origin.by = "compose"
        => \A i \in 1..Len(origin.segments) :
               LET seg == origin.segments[i]
               IN  seg.data # <<>>
                       => \E at \in 1..Len(Split(file)) :
                              \A k \in 1..RecordCount(seg) :
                                  /\ at + k <= Len(Split(file))
                                  /\ Len(Split(file)[at + k])
                                         = DATA + Len(Chunk(seg, k - 1)) + 2

\* the zero-length Segment a start-address record stands for
StartMarkerOf(rec) ==
    LET data == DataOf(rec)
    IN  IF RecordTypeOf(rec) = START_LINEAR_ADDRESS_RECORD
        THEN Segment(data, <<>>)
        ELSE Segment(FormatHex(HexToInt(Slice(data, 0, 4)) * 16
                                   + HexToInt(SliceFrom(data, 4)), 8), <<>>)

\* C24: a valid start-address record (type 03 or 05) leaves segment_base,
\* run_start, collected_bytes and the run data as they were; the Segment list
\* gains exactly one zero-length Segment, at its end, when no start address was
\* recorded before, and does not change otherwise.
C24_StartRecordLeavesRun ==
    [][ \A rec \in StartLines :
          (LoopStep /\ record' = rec)
          => /\ UNCHANGED <<segment_address, lower_address, data_collected, segment_data>>
             /\ segments' = IF start_address = EmptyStr
                             THEN Append(segments, StartMarkerOf(rec))
                             ELSE segments ]_vars

\* a start-address record was read while a run of one byte was open
C24_Witness ==
    /\ lines = <<Terminated(DataLine(256, 1)), Terminated(SlaLine(4096))>>
    /\ segments = <<MarkerSegment(4096)>>
    /\ segment_data = Payload(256, 1)
    /\ lower_address = 256
    /\ data_collected = 1

\* C29: during a parse the Segment list holds at most one zero-length Segment,
\* and once start_address is set no record of type 03 or 05 changes it.
C29_EntryPointOnce ==
    [][ /\ Len(SelectSeq(segments', LAMBDA seg : seg.data = <<>>)) <= 1
        /\ \A rec \in StartLines :
               (LoopStep /\ record' = rec /\ start_address # EmptyStr)
               => start_address' = start_address ]_vars

\* a second start-address record with another payload was read and rejected
C29_Witness ==
    /\ lines = <<Terminated(SlaLine(4096))>>
    /\ record = SlaLine(8192)
    /\ raised = "More than one start address found"
    /\ start_address = StrValue(DataOf(SlaLine(4096)))
    /\ segments = <<MarkerSegment(4096)>>

\* C30: a Segment appended when a run is stored, on a type 02 or 04 record or on
\* the end-of-file record, has non-empty data; so a Segment of the list has empty
\* data only if a start-address record that was read stands for it, and every
\* Segment a start-address record appends has empty data.
C30_ZeroLengthIsMarker ==
    [][ /\ \A rec \in RegisterLines \cup {EofLine} :
               (LoopStep /\ record' = rec)
               => \/ segments' = segments
                  \/ /\ Len(segments') = Len(segments) + 1
                     /\ SubSeq(segments', 1, Len(segments)) = segments
                     /\ segments'[Len(segments')].data # <<>>
        /\ \A rec \in StartLines :
               (LoopStep /\ record' = rec /\ segments' # segments)
               => segments'[Len(segments')].data = <<>>
        /\ \A i \in 1..Len(segments') :
               segments'[i].data = <<>>
               => \E k \in 1..Len(lines'), rec \in StartLines :
                      /\ lines'[k] = Terminated(rec)
                      /\ segments'[i] = StartMarkerOf(rec) ]_vars

\* the end-of-file record came while the run held a data record of no bytes
C30_Witness ==
    /\ lines = <<Terminated(DataLine(256, 0)), Terminated(EofLine)>>
    /\ end_of_file_reached
    /\ segments = <<>>
    /\ pc = "idle"
    /\ parsed
    /\ ret = <<>>

\* C25: whenever a parse call starts to process lines (parsed is False), also as
\* a retry after a parse call on the same instance that failed part-way, the
\* accumulation context is reset: segment_base = 0, the run is empty,
\* collected_bytes = 0, no start address is recorded, end of file is not marked,
\* and the Segment list and the retained lines are empty.
C25_ParseResetsContext ==
    [][ (pc = "idle" /\ pc' = "open")
        => ( /\ segment_address' = 0
             /\ segment_data' = <<>>
             /\ lower_address' = 0
             /\ data_collected' = 0
             /\ start_address' = EmptyStr
             /\ ~end_of_file_reached'
             /\ segments' = <<>>
             /\ lines' = <<>> ) ]_vars

\* C26: whenever a record handler raises (checksum mismatch, payload and length
\* differ, a type 02 or 04 record not of length 2, a type 03 or 05 record not of
\* length 4, a gap, a record on addresses of the run, a second start address that
\* differs), the Segment list, segment_base, run_start, collected_bytes, the
\* run data and the recorded start address are as before the line was processed.
C26_RejectedRecordKeepsState ==
    [][ (LoopStep /\ raised' # "none")
        => UNCHANGED <<segments, segment_address, lower_address, data_collected,
                       segment_data, start_address>> ]_vars

\* an address record of one byte was rejected while a run and a start address
\* were held
C26_Witness ==
    /\ raised = "Record length must be 2 bytes"
    /\ record = MakeRecord(1, 0, EXTENDED_LINEAR_ADDRESS_RECORD, <<1, 2>>)
    /\ lines = <<Terminated(DataLine(258, 1)), Terminated(SlaLine(4096))>>
    /\ segments = <<MarkerSegment(4096)>>
    /\ segment_data = Payload(258, 1)
    /\ lower_address = 258
    /\ data_collected = 1

\* a step of the loop of SmartCard.parse that reads the line
ScriptStep(line) ==
    pc = "script" /\ hex_file # <<>> /\ Head(hex_file) = line /\ record' = line

RunLines ==
    LET flush == {k \in 1..Len(lines) :
                     lines[k] \in {Terminated(r) : r \in RegisterLines \cup {EofLine}}}
        from == IF flush = {} THEN 0 ELSE CHOOSE k \in flush : \A j \in flush : j <= k
    IN  SubSeq(lines, from + 1, Len(lines))

\* the addresses the data records among the lines ls hold bytes for
AddressesOf(ls) ==
    UNION { {a + i : i \in 0..(n - 1)} :
              <<a, n>> \in {an \in DataAddrs \X DataLens :
                               \E k \in 1..Len(ls) : ls[k] = Terminated(DataLine(an[1], an[2]))} }

\* C31: after every processed record, collected_bytes is the number of bytes in
\* the run data, collected_bytes = 0 exactly when the run data is empty, and the
\* run data is the payloads of the data records accepted since the run was last
\* stored, joined in the order of their addresses: the bytes of the addresses
\* run_start .. run_start + collected_bytes - 1, which are the addresses of those
\* records.
C31_RunBookkeeping ==
    /\ Len(segment_data) = 2 * data_collected
    /\ data_collected = 0 <=> segment_data = <<>>
    /\ segment_data = Payload(lower_address, data_collected)
    /\ AddressesOf(RunLines) = {lower_address + i : i \in 0..(data_collected - 1)}

\* a record below the run and a record above it were joined to the first record
C31_Witness ==
    /\ lines = <<Terminated(DataLine(257, 1)), Terminated(DataLine(256, 1)),
                 Terminated(DataLine(258, 2))>>
    /\ segment_data = Payload(256, 1) \o Payload(257, 1) \o Payload(258, 2)
    /\ lower_address = 256
    /\ data_collected = 4

=============================================================================
